---------------------------- MODULE Spec2Model ----------------------------
(***************************************************************************)
(* Model of the legal-mp-backend settlement core: the quote (offer)        *)
(* lifecycle, the payment (settlement record) bookkeeping, the settlement  *)
(* transaction run by MockComplete and StripeWebhook, and the case Cancel  *)
(* and Close transitions.                                                  *)
(*                                                                         *)
(* The store is a PostgreSQL database used at READ COMMITTED: every        *)
(* statement reads the committed rows (plus the writes of its own          *)
(* transaction), SELECT ... FOR UPDATE and UPDATE block on a row another   *)
(* transaction has locked, and a transaction's writes become visible at    *)
(* commit.  Each request handler is a process that runs one statement per  *)
(* step; a transaction's writes are kept in the process until commit.      *)
(***************************************************************************)
EXTENDS Integers, Sequences, FiniteSets, TLC

(* ------------------------------ bounds -------------------------------- *)
NumProcs == 2
NumCases == 1
NumLawyers == 3
MaxOps == 3

(* -------------------------- program constants ------------------------- *)
MaxAmountCents == 100000000
MaxDays == 365
MaxNoteLen == 500

Procs == 1..NumProcs
Cases == 1..NumCases
\* a case id that names no row
MissingCase == NumCases + 1
LawyerNames == <<"L1", "L2", "L3", "L4">>
Lawyers == {LawyerNames[i] : i \in 1..NumLawyers}
Clients == {"A", "B"}
NoUser == "none"

CaseOpen == "open"
CaseEngaged == "engaged"
CaseClosed == "closed"
CaseCancelled == "cancelled"

QuoteProposed == "proposed"
QuoteAccepted == "accepted"
QuoteRejected == "rejected"

PayInitiated == "initiated"
PayPaid == "paid"
PayFailed == "failed"

VARIABLES
    cases,      \* table cases: case id -> row
    quotes,     \* table quotes: sequence of rows, the id is the index
    payments,   \* table payments: sequence of rows, the id is the index
    hist,       \* table case_histories, append-only
    provider,   \* PAYMENT_PROVIDER / APP_ENV of the deployment
    loc,        \* per request slot: the handler it runs, its position and locals
    opCount,    \* number of requests started so far
    nextSession,\* the id of the next Stripe checkout session
    last,       \* the latest response: which handler returned what
    lastUpsert, \* history: the payload of the last committed Upsert per (case, lawyer)
    failed,     \* history: the last settlement attempt that was rolled back
    files,      \* table case_files: the cases whose uploaded file is stored
    resp        \* the quotes in the body of the latest case-detail response

vars == <<cases, quotes, payments, hist, provider, loc, opCount, nextSession, last,
          lastUpsert, failed, files, resp>>

db == <<cases, quotes, payments, hist>>

(* ------------------------------ helpers ------------------------------- *)

\* strings.TrimSpace on a note (a sequence of characters)
RECURSIVE TrimLeft(_)
TrimLeft(s) == IF s # <<>> /\ Head(s) = " " THEN TrimLeft(Tail(s)) ELSE s

RECURSIVE TrimRight(_)
TrimRight(s) ==
    IF s # <<>> /\ s[Len(s)] = " " THEN TrimRight(SubSeq(s, 1, Len(s) - 1)) ELSE s

TrimSpace(s) == TrimRight(TrimLeft(s))

\* a note is a sequence of words; these two stand for an e-mail address and
\* for a phone number of eight digits or more
EmailToken == "@"
PhoneToken == "#"

\* sanitize.RedactPII: e-mail addresses first, then phone numbers
RedactEmails(s) ==
    [i \in 1..Len(s) |-> IF s[i] = EmailToken THEN "[redacted email]" ELSE s[i]]
RedactPhones(s) ==
    [i \in 1..Len(s) |-> IF s[i] = PhoneToken THEN "[redacted phone]" ELSE s[i]]
RedactPII(s) == IF s = <<>> THEN s ELSE RedactPhones(RedactEmails(s))

\* validation.Validate on UpsertQuoteRequest
Validate(in) ==
    /\ in.amount >= 1 /\ in.amount <= MaxAmountCents
    /\ in.days >= 1 /\ in.days <= MaxDays
    /\ Len(in.note) <= MaxNoteLen

\* the request bodies of Upsert: two valid ones and one validation rejects
UpsertInputs ==
    { [amount |-> 1, days |-> 1, note |-> <<EmailToken, "a", PhoneToken>>],
      [amount |-> 2, days |-> 2, note |-> <<" ", "b", " ">>],
      [amount |-> 0, days |-> 1, note |-> <<>>] }

NoInput == [amount |-> 0, days |-> 0, note |-> <<>>]

QuoteIds == 1..Len(quotes)
PayIds == 1..Len(payments)

\* the locals of a request slot that runs nothing
IdleLoc ==
    [ pc |-> "idle", op |-> "none", ret |-> "none",
      caller |-> NoUser, caseId |-> 0, quoteId |-> 0, payId |-> 0,
      inp |-> NoInput, intent |-> 0, receipt |-> FALSE, inserted |-> FALSE,
      aborted |-> FALSE,
      cs |-> <<>>, q |-> <<>>, pay |-> <<>>, old |-> "none",
      wqs |-> <<>>, wqf |-> <<>>, wins |-> <<>>, wcase |-> <<>>,
      whist |-> <<>>, wpay |-> <<>> ]

\* the handler continues with the locals l
SetLoc(p, l) ==
    /\ loc' = [loc EXCEPT ![p] = l]
    /\ last' = last

\* the handler of request slot p returns r: its locals are dropped (a
\* transaction still open is rolled back with them) and the response is
\* recorded as the latest one
Respond(p, l, r) ==
    /\ loc' = [loc EXCEPT ![p] = IdleLoc]
    /\ last' = [op |-> l.op, ret |-> r]

\* error responses of the handlers
ErrNotFound == "NotFound"
ErrForbidden == "Forbidden"
\* the case-not-open refusal sent as 403
ErrCaseNotOpenAsForbidden == "Forbidden"
ErrCaseNotOpen == "Conflict"
ErrQuoteImmutable == "Conflict"
ErrAmountMismatch == "Conflict"

Return(p, r) == Respond(p, loc[p], r)

\* a slot takes the next request
Begin(p) ==
    /\ loc[p].pc = "idle"
    /\ opCount < MaxOps
    /\ opCount' = opCount + 1

Min(S) == CHOOSE x \in S : \A y \in S : x <= y

\* row locks are held by the transaction of a process from the statement
\* that took them to its commit or rollback
HoldsCaseLock(p, c) ==
    /\ loc[p].caseId = c
    /\ loc[p].pc \in {"U_write", "U_commit",
                      "MC_engage", "MC_pay", "MC_commit",
                      "SW_engage", "SW_pay", "SW_commit"}

HoldsPayLock(p, id) ==
    /\ loc[p].payId = id
    /\ loc[p].pc \in {"MC_lockCase", "MC_engage", "MC_pay", "MC_commit",
                      "SW_lockCase", "SW_engage", "SW_pay", "SW_commit"}

\* the case row is read and written without taking its lock
CaseLockIgnored(p, c) == TRUE

\* the payment row is read without taking its lock
PayLockIgnored(p, id) == TRUE

\* the case row lock is never granted
CaseLockNever(p, c) == FALSE

CaseLockFree(p, c) == \A o \in Procs \ {p} : ~HoldsCaseLock(o, c)
PayLockFree(p, id) == \A o \in Procs \ {p} : ~HoldsPayLock(o, id)

(* ------------------------------- Init --------------------------------- *)

Owner(c) == "A"

NoResponse == [op |-> "none", ret |-> "none"]

\* a deployment whose cases have just been created (cases.Handler.Create)
InitFresh ==
    /\ cases = [c \in Cases |->
                  [client |-> Owner(c), status |-> CaseOpen, acceptedQuote |-> 0,
                   acceptedLawyer |-> NoUser, engagedAt |-> FALSE]]
    /\ hist = [c \in Cases |->
                 [caseId |-> c, actor |-> Owner(c), action |-> "created",
                  old |-> "", new |-> CaseOpen, reason |-> "case created"]]
    /\ provider \in {"mock", "stripe"}
    /\ loc = [p \in Procs |-> IdleLoc]
    /\ opCount = 0
    /\ last = NoResponse
    /\ failed = <<>>
    /\ files = Cases
    /\ resp = {}

\* the payloads the two lawyers of the bidding state have submitted
BidOf(l) == IF l = "L1" THEN [amount |-> 1, days |-> 1,
                              note |-> <<EmailToken, "a", PhoneToken>>]
            ELSE [amount |-> 2, days |-> 2, note |-> <<" ", "b", " ">>]

\* no quote yet
InitEmpty ==
    /\ InitFresh
    /\ quotes = <<>>
    /\ payments = <<>>
    /\ nextSession = 1
    /\ lastUpsert = [c \in Cases |-> [l \in Lawyers |-> NoInput]]

\* the state after Upsert by L1 and by L2 on case 1 and a CreateCheckout by the
\* owner for each of the two quotes, all run one after the other
InitBidding ==
    /\ InitFresh
    /\ quotes = [i \in 1..2 |->
                   [caseId |-> 1, lawyer |-> LawyerNames[i],
                    amount |-> BidOf(LawyerNames[i]).amount,
                    days |-> BidOf(LawyerNames[i]).days,
                    note |-> TrimSpace(BidOf(LawyerNames[i]).note),
                    status |-> QuoteProposed]]
    /\ payments = [i \in 1..2 |->
                     [caseId |-> 1, quoteId |-> i, client |-> Owner(1),
                      amount |-> BidOf(LawyerNames[i]).amount,
                      status |-> PayInitiated,
                      session |-> IF provider = "stripe" THEN i ELSE 0,
                      intent |-> 0]]
    /\ nextSession = IF provider = "stripe" THEN 3 ELSE 1
    /\ lastUpsert = [c \in Cases |-> [l \in Lawyers |->
                        IF c = 1 /\ l \in {"L1", "L2"} THEN BidOf(l) ELSE NoInput]]

Init == InitEmpty \/ InitBidding

(* ------------------------- quotes.Handler.Upsert ---------------------- *)

\* only an engaged case is refused
UpsertCaseNotOpenEngagedOnly(c) == cases[c].status = CaseEngaged

\* cs.Status != models.CaseOpen, in the pre-check and again under the lock
UpsertCaseNotOpen(c) == cases[c].status # CaseOpen

\* the lookup finds nothing, so every Upsert inserts
FindQuoteNone(c, lawyer) == {}

\* the lookup is by case only: WHERE case_id = ?
FindQuoteByCase(c, lawyer) == {i \in QuoteIds : quotes[i].caseId = c}

\* WHERE case_id = ? AND lawyer_id = ?
FindQuote(c, lawyer) ==
    {i \in QuoteIds : quotes[i].caseId = c /\ quotes[i].lawyer = lawyer}

\* the pre-check outside the transaction: the case exists and is OPEN
UpsertStart(p, lawyer, c, in) ==
    /\ Begin(p)
    /\ LET l == [IdleLoc EXCEPT !.op = "Upsert", !.caller = lawyer,
                                !.caseId = c, !.inp = in]
       IN  IF ~Validate(in) THEN Respond(p, l, "BadRequest")
           ELSE IF c \notin Cases THEN Respond(p, l, ErrNotFound)
           ELSE IF UpsertCaseNotOpen(c) THEN Respond(p, l, ErrCaseNotOpen)
           ELSE SetLoc(p, [l EXCEPT !.pc = "U_lock"])
    /\ UNCHANGED <<db, provider, files, resp, failed, nextSession, lastUpsert>>

\* SELECT ... FOR UPDATE on the case row, then the status check under the lock
UpsertLockCase(p) ==
    /\ loc[p].pc = "U_lock"
    /\ CaseLockFree(p, loc[p].caseId)
    /\ IF UpsertCaseNotOpen(loc[p].caseId)
          THEN Return(p, ErrCaseNotOpen)
          ELSE SetLoc(p, [loc[p] EXCEPT !.pc = "U_write",
                                        !.cs = <<cases[loc[p].caseId]>>])
    /\ UNCHANGED <<db, provider, files, resp, failed, opCount, nextSession, lastUpsert>>

\* look the quote up by (case_id, lawyer_id); insert it or update it
UpsertWrite(p) ==
    /\ loc[p].pc = "U_write"
    /\ LET l == loc[p]
           found == FindQuote(l.caseId, l.caller)
       IN  IF found = {}
             THEN SetLoc(p, [l EXCEPT !.pc = "U_commit",
                    !.wins = <<[caseId |-> l.caseId, lawyer |-> l.caller,
                                amount |-> l.inp.amount, days |-> l.inp.days,
                                note |-> TrimSpace(l.inp.note),
                                status |-> QuoteProposed]>>])
             ELSE LET i == Min(found)
                  IN  IF quotes[i].status # QuoteProposed
                        THEN Return(p, ErrQuoteImmutable)
                      ELSE IF quotes[i].lawyer # l.caller THEN Return(p, ErrForbidden)
                      ELSE SetLoc(p, [l EXCEPT !.pc = "U_commit", !.quoteId = i,
                             !.wqf = (i :> [amount |-> l.inp.amount,
                                            days |-> l.inp.days,
                                            note |-> TrimSpace(l.inp.note)])])
    /\ UNCHANGED <<db, provider, files, resp, failed, opCount, nextSession, lastUpsert>>

\* the quotes table after the transaction of l commits
CommitQuotes(l) ==
    [i \in QuoteIds |->
        [quotes[i] EXCEPT
            !.status = IF i \in DOMAIN l.wqs THEN l.wqs[i] ELSE @,
            !.amount = IF i \in DOMAIN l.wqf THEN l.wqf[i].amount ELSE @,
            !.days = IF i \in DOMAIN l.wqf THEN l.wqf[i].days ELSE @,
            !.note = IF i \in DOMAIN l.wqf THEN l.wqf[i].note ELSE @]]
    \o l.wins

UpsertCommit(p) ==
    /\ loc[p].pc = "U_commit"
    /\ quotes' = CommitQuotes(loc[p])
    /\ lastUpsert' = [lastUpsert EXCEPT ![loc[p].caseId][loc[p].caller] = loc[p].inp]
    /\ Return(p, "ok")
    /\ UNCHANGED <<cases, payments, hist, provider, files, resp, failed, opCount, nextSession>>

Upsert(p) ==
    \/ \E lawyer \in Lawyers, c \in Cases \cup {MissingCase}, in \in UpsertInputs :
          UpsertStart(p, lawyer, c, in)
    \/ UpsertLockCase(p)
    \/ UpsertWrite(p)
    \/ UpsertCommit(p)

(* ---------------- what a transaction writes at commit ------------------ *)

CommitCases(l) ==
    IF l.wcase = <<>> THEN cases
    ELSE [cases EXCEPT ![l.caseId] =
            [@ EXCEPT !.status = l.wcase[1].status,
                      !.engagedAt = l.wcase[1].engagedAt,
                      !.acceptedQuote = l.wcase[1].acceptedQuote,
                      !.acceptedLawyer = l.wcase[1].acceptedLawyer]]

\* the payment write is lost at commit
CommitPaymentsLost(l) == payments

CommitPayments(l) ==
    IF l.wpay = <<>> THEN payments
    ELSE [payments EXCEPT ![l.payId] =
            [@ EXCEPT !.status = l.wpay[1].status,
                      !.intent = IF l.wpay[1].intent # 0 THEN l.wpay[1].intent ELSE @]]

CommitHist(l) == hist \o l.whist

\* utils.LogCaseHistory: the row it inserts
HistoryRow(c, actor, action, oldS, newS, reason) ==
    [caseId |-> c, actor |-> actor, action |-> action,
     old |-> oldS, new |-> newS, reason |-> reason]

\* the quote is accepted and the other quotes are left as they are
AcceptOnly(c, q) == (q :> QuoteAccepted)

\* UPDATE quotes SET status = accepted WHERE id = q; then
\* UPDATE quotes SET status = rejected
\*   WHERE case_id = c AND id <> q AND status = proposed
AcceptAndReject(c, q) ==
    LET seen(i) == IF i = q THEN QuoteAccepted ELSE quotes[i].status
        rej == {i \in QuoteIds : quotes[i].caseId = c /\ i # q
                                  /\ seen(i) = QuoteProposed}
    IN  [i \in {q} \cup rej |-> IF i = q THEN QuoteAccepted ELSE QuoteRejected]

\* UPDATE cases SET status, engaged_at, accepted_quote_id, accepted_lawyer_id
EngageWrite(q) ==
    [status |-> CaseEngaged, engagedAt |-> TRUE,
     acceptedQuote |-> q.id, acceptedLawyer |-> q.lawyer]

\* the winner is picked whatever the status of the case
SettleCaseOpenAlways(cs) == TRUE

\* cs.Status == models.CaseOpen: the settlement still has to pick the winner
SettleCaseOpen(cs) == cs.status = CaseOpen

\* the amounts are never compared
AmountMismatchNever(pay, q) == FALSE

\* pay.AmountCents != q.AmountCents
AmountMismatch(pay, q) == pay.amount # q.amount

(* --------------------- payments.Handler.MockComplete ------------------- *)

\* the payment id a request may name that has no row
MissingPay == Len(payments) + 1

\* the idempotency check is missing
AlreadyPaidNever(pay) == FALSE

\* pay.Status == models.PayPaid: the record is settled already
AlreadyPaid(pay) == pay.status = PayPaid

\* the environment and secret guards, then SELECT ... FOR UPDATE on the payment
MockCompleteStart(p, pid, secretOk) ==
    /\ Begin(p)
    /\ LET l == [IdleLoc EXCEPT !.op = "MockComplete", !.payId = pid]
       IN  IF provider # "mock" THEN Respond(p, l, ErrNotFound)
           ELSE IF ~secretOk THEN Respond(p, l, "Unauthorized")
           ELSE IF pid \notin PayIds THEN Respond(p, l, ErrNotFound)
           ELSE /\ PayLockFree(p, pid)
                /\ IF AlreadyPaid(payments[pid])
                     THEN Respond(p, l, "ok-already-paid")
                     ELSE SetLoc(p, [l EXCEPT !.pc = "MC_lockCase",
                                              !.pay = <<payments[pid]>>])
    /\ UNCHANGED <<db, provider, files, resp, failed, nextSession, lastUpsert>>

\* SELECT ... FOR UPDATE on the case, read the quote, compare the amounts
MockCompleteLockCase(p) ==
    /\ loc[p].pc = "MC_lockCase"
    /\ LET pay == loc[p].pay[1]
           c == pay.caseId
           q == quotes[pay.quoteId]
       IN  /\ CaseLockFree(p, c)
           /\ IF AmountMismatch(pay, q)
                THEN Return(p, ErrAmountMismatch)
                ELSE SetLoc(p, [loc[p] EXCEPT
                        !.pc = IF SettleCaseOpen(cases[c]) THEN "MC_engage"
                               ELSE "MC_pay",
                        !.caseId = c,
                        !.quoteId = pay.quoteId,
                        !.cs = <<cases[c]>>,
                        !.q = <<[id |-> pay.quoteId, lawyer |-> q.lawyer,
                                 amount |-> q.amount]>>])
    /\ UNCHANGED <<db, provider, files, resp, failed, opCount, nextSession, lastUpsert>>

\* the case is OPEN: accept the quote, reject the others, engage the case, log
MockCompleteEngage(p) ==
    /\ loc[p].pc = "MC_engage"
    /\ LET l == loc[p]
       IN  SetLoc(p, [l EXCEPT
              !.pc = "MC_pay",
              !.wqs = AcceptAndReject(l.caseId, l.q[1].id),
              !.wcase = <<EngageWrite(l.q[1])>>,
              !.whist = <<HistoryRow(l.caseId, l.cs[1].client, "engaged",
                                     CaseOpen, CaseEngaged, "mock")>>])
    /\ UNCHANGED <<db, provider, files, resp, failed, opCount, nextSession, lastUpsert>>

\* UPDATE payments SET status = paid
MockCompletePay(p) ==
    /\ loc[p].pc = "MC_pay"
    /\ ~loc[p].aborted
    /\ SetLoc(p, [loc[p] EXCEPT !.pc = "MC_commit",
                                !.wpay = <<[status |-> PayPaid, intent |-> 0]>>])
    /\ UNCHANGED <<db, provider, files, resp, failed, opCount, nextSession, lastUpsert>>

MockCompleteCommit(p) ==
    /\ loc[p].pc = "MC_commit"
    /\ cases' = CommitCases(loc[p])
    /\ quotes' = CommitQuotes(loc[p])
    /\ payments' = CommitPayments(loc[p])
    /\ hist' = CommitHist(loc[p])
    /\ Return(p, "ok")
    /\ UNCHANGED <<provider, files, resp, failed, opCount, nextSession, lastUpsert>>

MockComplete(p) ==
    \/ \E pid \in PayIds \cup {MissingPay}, secretOk \in BOOLEAN :
          MockCompleteStart(p, pid, secretOk)
    \/ MockCompleteLockCase(p)
    \/ MockCompleteEngage(p)
    \/ MockCompletePay(p)
    \/ MockCompleteCommit(p)

(* --------------------- payments.Handler.StripeWebhook ------------------ *)

\* the PaymentIntent id Stripe attaches to the checkout session of a payment
IntentOf(pid) == pid

\* a verified checkout.session.completed event naming payment pid; the receipt
\* number is fetched before the transaction; then SELECT ... FOR UPDATE on the
\* payment
StripeWebhookStart(p, pid, intent, receipt) ==
    /\ Begin(p)
    /\ intent \in {0, IntentOf(pid)}
    /\ receipt => intent # 0
    /\ LET l == [IdleLoc EXCEPT !.op = "StripeWebhook", !.payId = pid,
                                !.intent = intent, !.receipt = receipt]
       IN  IF pid \notin PayIds THEN Respond(p, l, ErrNotFound)
           ELSE /\ PayLockFree(p, pid)
                /\ IF AlreadyPaid(payments[pid])
                     THEN Respond(p, l, "ok")
                     ELSE SetLoc(p, [l EXCEPT !.pc = "SW_lockCase",
                                              !.pay = <<payments[pid]>>])
    /\ UNCHANGED <<db, provider, files, resp, failed, nextSession, lastUpsert>>

StripeWebhookLockCase(p) ==
    /\ loc[p].pc = "SW_lockCase"
    /\ LET pay == loc[p].pay[1]
           c == pay.caseId
           q == quotes[pay.quoteId]
       IN  /\ CaseLockFree(p, c)
           /\ IF AmountMismatch(pay, q)
                THEN Return(p, ErrAmountMismatch)
                ELSE SetLoc(p, [loc[p] EXCEPT
                        !.pc = IF SettleCaseOpen(cases[c]) THEN "SW_engage"
                               ELSE "SW_pay",
                        !.caseId = c,
                        !.quoteId = pay.quoteId,
                        !.cs = <<cases[c]>>,
                        !.q = <<[id |-> pay.quoteId, lawyer |-> q.lawyer,
                                 amount |-> q.amount]>>])
    /\ UNCHANGED <<db, provider, files, resp, failed, opCount, nextSession, lastUpsert>>

\* the webhook accepts the quote and leaves its siblings PROPOSED
StripeWebhookEngageAcceptOnly(p) ==
    /\ loc[p].pc = "SW_engage"
    /\ LET l == loc[p]
           reason == IF l.receipt THEN "stripe-receipt" ELSE "stripe"
       IN  SetLoc(p, [l EXCEPT
              !.pc = "SW_pay",
              !.wqs = AcceptOnly(l.caseId, l.q[1].id),
              !.wcase = <<EngageWrite(l.q[1])>>,
              !.whist = <<HistoryRow(l.caseId, l.cs[1].client, "engaged",
                                     CaseOpen, CaseEngaged, reason)>>])
    /\ UNCHANGED <<db, provider, files, resp, failed, opCount, nextSession, lastUpsert>>

StripeWebhookEngage(p) ==
    /\ loc[p].pc = "SW_engage"
    /\ LET l == loc[p]
           reason == IF l.receipt THEN "stripe-receipt" ELSE "stripe"
       IN  SetLoc(p, [l EXCEPT
              !.pc = "SW_pay",
              !.wqs = AcceptAndReject(l.caseId, l.q[1].id),
              !.wcase = <<EngageWrite(l.q[1])>>,
              !.whist = <<HistoryRow(l.caseId, l.cs[1].client, "engaged",
                                     CaseOpen, CaseEngaged, reason)>>])
    /\ UNCHANGED <<db, provider, files, resp, failed, opCount, nextSession, lastUpsert>>

\* UPDATE payments SET status = paid [, stripe_payment_intent = pi]
StripeWebhookPay(p) ==
    /\ loc[p].pc = "SW_pay"
    /\ ~loc[p].aborted
    /\ SetLoc(p, [loc[p] EXCEPT
          !.pc = "SW_commit",
          !.wpay = <<[status |-> PayPaid, intent |-> loc[p].intent]>>])
    /\ UNCHANGED <<db, provider, files, resp, failed, opCount, nextSession, lastUpsert>>

StripeWebhookCommit(p) ==
    /\ loc[p].pc = "SW_commit"
    /\ cases' = CommitCases(loc[p])
    /\ quotes' = CommitQuotes(loc[p])
    /\ payments' = CommitPayments(loc[p])
    /\ hist' = CommitHist(loc[p])
    /\ Return(p, "ok")
    /\ UNCHANGED <<provider, files, resp, failed, opCount, nextSession, lastUpsert>>

StripeWebhook(p) ==
    \/ \E pid \in PayIds \cup {MissingPay}, intent \in 0..(Len(payments) + 1),
          receipt \in BOOLEAN :
          StripeWebhookStart(p, pid, intent, receipt)
    \/ StripeWebhookLockCase(p)
    \/ StripeWebhookEngage(p)
    \/ StripeWebhookPay(p)
    \/ StripeWebhookCommit(p)

(* -------- payments.Handler.CreateCheckout / CreateCheckoutMock -------- *)

\* load the quote and its case, check the owner and that the case is OPEN
\* a checkout may be started on a case of any status
CheckoutAllowedAlways(cs) == TRUE

\* cs.Status != models.CaseOpen refuses the checkout
CheckoutAllowed(cs) == cs.status = CaseOpen

CreateCheckoutStart(p, caller, qid) ==
    /\ Begin(p)
    /\ LET l == [IdleLoc EXCEPT !.op = "CreateCheckout", !.caller = caller,
                                !.quoteId = qid]
       IN  IF qid \notin QuoteIds THEN Respond(p, l, "NotFound")
           ELSE LET q == quotes[qid]
                    c == q.caseId
                IN  IF cases[c].client # caller THEN Respond(p, l, "Forbidden")
                    ELSE IF ~CheckoutAllowed(cases[c])
                      THEN Respond(p, l, "Conflict")
                    ELSE SetLoc(p, [l EXCEPT
                           !.pc = "CK_find", !.caseId = c,
                           !.cs = <<cases[c]>>,
                           !.q = <<[id |-> qid, lawyer |-> q.lawyer,
                                    amount |-> q.amount]>>])
    /\ UNCHANGED <<db, provider, files, resp, failed, nextSession, lastUpsert>>

\* SELECT ... FROM payments WHERE quote_id = q ORDER BY id LIMIT 1
CreateCheckoutFind(p) ==
    /\ loc[p].pc = "CK_find"
    /\ LET l == loc[p]
           found == {i \in PayIds : payments[i].quoteId = l.quoteId}
       IN  IF found = {} THEN SetLoc(p, [l EXCEPT !.pc = "CK_insert"])
           ELSE IF payments[Min(found)].status = PayPaid THEN Return(p, "Conflict")
           ELSE IF provider = "mock" THEN Return(p, "ok")
           ELSE SetLoc(p, [l EXCEPT !.pc = "CK_session", !.payId = Min(found)])
    /\ UNCHANGED <<db, provider, files, resp, failed, opCount, nextSession, lastUpsert>>

\* INSERT INTO payments: a new INITIATED row with the amount of the quote read
CreateCheckoutInsert(p) ==
    /\ loc[p].pc = "CK_insert"
    /\ LET l == loc[p]
       IN  /\ payments' = Append(payments,
                [caseId |-> l.caseId, quoteId |-> l.quoteId,
                 client |-> l.cs[1].client, amount |-> l.q[1].amount,
                 status |-> PayInitiated, session |-> 0, intent |-> 0])
           /\ IF provider = "mock" THEN Return(p, "ok")
              ELSE SetLoc(p, [l EXCEPT !.pc = "CK_session",
                                       !.payId = Len(payments) + 1,
                                       !.inserted = TRUE])
    /\ UNCHANGED <<cases, quotes, hist, provider, files, resp, failed, opCount, nextSession, lastUpsert>>

\* session.New, then UPDATE payments SET stripe_session_id = sid WHERE id = pay
CreateCheckoutSession(p) ==
    /\ loc[p].pc = "CK_session"
    /\ PayLockFree(p, loc[p].payId)
    /\ payments' = [payments EXCEPT ![loc[p].payId].session = nextSession]
    /\ nextSession' = nextSession + 1
    /\ Return(p, "ok")
    /\ UNCHANGED <<cases, quotes, hist, provider, files, resp, failed, opCount, lastUpsert>>

CreateCheckout(p) ==
    \/ \E caller \in Clients, qid \in QuoteIds \cup {Len(quotes) + 1} :
          CreateCheckoutStart(p, caller, qid)
    \/ CreateCheckoutFind(p)
    \/ CreateCheckoutInsert(p)
    \/ CreateCheckoutSession(p)

(* ------------------- cases.Handler.Cancel and Close -------------------- *)

\* a case that is OPEN or ENGAGED may be closed
CloseAllowedAnyActive(cs) == cs.status \in {CaseOpen, CaseEngaged}

\* cs.Status != models.CaseOpen refuses the Cancel
CancelAllowed(cs) == cs.status = CaseOpen

\* cs.Status != models.CaseEngaged refuses the Close
CloseAllowed(cs) == cs.status = CaseEngaged

ErrCaseCannotBeCancelled == "Conflict"
ErrOnlyEngagedCanBeClosed == "Conflict"

\* read the case outside any transaction and check owner and status
CancelStart(p, caller, c) ==
    /\ Begin(p)
    /\ LET l == [IdleLoc EXCEPT !.op = "Cancel", !.caller = caller, !.caseId = c]
       IN  IF c \notin Cases THEN Respond(p, l, ErrNotFound)
           ELSE IF cases[c].client # caller THEN Respond(p, l, ErrForbidden)
           ELSE IF ~CancelAllowed(cases[c])
             THEN Respond(p, l, ErrCaseCannotBeCancelled)
           ELSE SetLoc(p, [l EXCEPT !.pc = "CA_update", !.old = cases[c].status])
    /\ UNCHANGED <<db, provider, files, resp, failed, nextSession, lastUpsert>>

\* UPDATE cases SET status = cancelled WHERE id = c (waits for the row lock)
CancelUpdate(p) ==
    /\ loc[p].pc = "CA_update"
    /\ CaseLockFree(p, loc[p].caseId)
    /\ cases' = [cases EXCEPT ![loc[p].caseId].status = CaseCancelled]
    /\ SetLoc(p, [loc[p] EXCEPT !.pc = "CA_log"])
    /\ UNCHANGED <<quotes, payments, hist, provider, files, resp, failed, opCount, nextSession, lastUpsert>>

CancelLog(p) ==
    /\ loc[p].pc = "CA_log"
    /\ hist' = Append(hist, HistoryRow(loc[p].caseId, loc[p].caller, "cancelled",
                                       loc[p].old, CaseCancelled, "comment"))
    /\ Return(p, "ok")
    /\ UNCHANGED <<cases, quotes, payments, provider, files, resp, failed, opCount, nextSession, lastUpsert>>

Cancel(p) ==
    \/ \E caller \in Clients, c \in Cases \cup {MissingCase} : CancelStart(p, caller, c)
    \/ CancelUpdate(p)
    \/ CancelLog(p)

CloseStart(p, caller, c) ==
    /\ Begin(p)
    /\ LET l == [IdleLoc EXCEPT !.op = "Close", !.caller = caller, !.caseId = c]
       IN  IF c \notin Cases THEN Respond(p, l, ErrNotFound)
           ELSE IF cases[c].client # caller THEN Respond(p, l, ErrForbidden)
           ELSE IF ~CloseAllowed(cases[c])
             THEN Respond(p, l, ErrOnlyEngagedCanBeClosed)
           ELSE SetLoc(p, [l EXCEPT !.pc = "CL_update", !.old = cases[c].status])
    /\ UNCHANGED <<db, provider, files, resp, failed, nextSession, lastUpsert>>

\* UPDATE cases SET status = closed WHERE id = c
CloseUpdate(p) ==
    /\ loc[p].pc = "CL_update"
    /\ CaseLockFree(p, loc[p].caseId)
    /\ cases' = [cases EXCEPT ![loc[p].caseId].status = CaseClosed]
    /\ SetLoc(p, [loc[p] EXCEPT !.pc = "CL_log"])
    /\ UNCHANGED <<quotes, payments, hist, provider, files, resp, failed, opCount, nextSession, lastUpsert>>

CloseLog(p) ==
    /\ loc[p].pc = "CL_log"
    /\ hist' = Append(hist, HistoryRow(loc[p].caseId, loc[p].caller, "closed",
                                       loc[p].old, CaseClosed, "comment"))
    /\ Return(p, "ok")
    /\ UNCHANGED <<cases, quotes, payments, provider, files, resp, failed, opCount, nextSession, lastUpsert>>

Close(p) ==
    \/ \E caller \in Clients, c \in Cases \cup {MissingCase} : CloseStart(p, caller, c)
    \/ CloseUpdate(p)
    \/ CloseLog(p)

(* ------------------ statements that fail in the database -------------- *)

\* what a settlement decides: per case the status and the accepted pointers,
\* the status of every quote and of every payment
SettlementView ==
    [cs |-> [c \in Cases |-> [status |-> cases[c].status,
                              acceptedQuote |-> cases[c].acceptedQuote,
                              acceptedLawyer |-> cases[c].acceptedLawyer]],
     qs |-> [i \in QuoteIds |-> quotes[i].status],
     ps |-> [i \in PayIds |-> payments[i].status]]

\* the settlement of slot p is rolled back: remember its payment and the store
RolledBack(p) == failed' = <<[payId |-> loc[p].payId, view |-> SettlementView]>>

\* the rollback leaves the quote writes of the transaction in place
MockCompleteFailKeepsQuotes(p) ==
    /\ loc[p].pc \in {"MC_lockCase", "MC_engage", "MC_pay", "MC_commit"}
    /\ quotes' = CommitQuotes(loc[p])
    /\ Return(p, "Internal")
    /\ RolledBack(p)
    /\ UNCHANGED <<cases, payments, hist, provider, files, resp, opCount, nextSession, lastUpsert>>

\* a statement of the Upsert transaction, or its commit, returns an error:
\* tx.Rollback() and 500
UpsertFail(p) ==
    /\ loc[p].pc \in {"U_lock", "U_write", "U_commit"}
    /\ Return(p, "Internal")
    /\ UNCHANGED <<db, provider, files, resp, failed, opCount, nextSession, lastUpsert>>

MockCompleteFail(p) ==
    /\ loc[p].pc \in {"MC_lockCase", "MC_engage", "MC_pay", "MC_commit"}
    /\ Return(p, "Internal")
    /\ RolledBack(p)
    /\ UNCHANGED <<db, provider, files, resp, opCount, nextSession, lastUpsert>>

StripeWebhookFail(p) ==
    /\ loc[p].pc \in {"SW_lockCase", "SW_engage", "SW_pay", "SW_commit"}
    /\ Return(p, "Internal")
    /\ RolledBack(p)
    /\ UNCHANGED <<db, provider, files, resp, opCount, nextSession, lastUpsert>>

(* --------------- cases.Handler: case detail and case files -------------- *)

Users == Clients \cup Lawyers
RoleOf(u) == IF u \in Clients THEN "client" ELSE "lawyer"

\* the note of quote i in the owner's case detail
ShownNote(cs, i) ==
    IF cs.status = CaseOpen THEN RedactPII(quotes[i].note)
    ELSE IF cs.status \in {CaseEngaged, CaseClosed}
      THEN IF i # cs.acceptedQuote THEN RedactPII(quotes[i].note)
           ELSE quotes[i].note
    ELSE RedactPII(quotes[i].note)

\* GET /cases/:id
GetDetail(p, user, c) ==
    /\ Begin(p)
    /\ LET l == [IdleLoc EXCEPT !.op = "GetDetail", !.caller = user, !.caseId = c]
           ofCase == {i \in QuoteIds : quotes[i].caseId = c}
       IN  IF c \notin Cases
             THEN Respond(p, l, ErrNotFound) /\ resp' = {}
           ELSE IF RoleOf(user) = "client"
             THEN IF cases[c].client # user
                    THEN Respond(p, l, ErrForbidden) /\ resp' = {}
                    ELSE /\ Respond(p, l, "ok")
                         /\ resp' = {[id |-> i, note |-> ShownNote(cases[c], i)] :
                                       i \in ofCase}
           ELSE IF cases[c].status \notin {CaseEngaged, CaseClosed}
                   \/ cases[c].acceptedLawyer # user
             THEN Respond(p, l, ErrForbidden) /\ resp' = {}
           ELSE /\ Respond(p, l, "ok")
                /\ resp' = {[id |-> i, note |-> quotes[i].note] :
                              i \in {j \in QuoteIds : j = cases[c].acceptedQuote}}
    /\ UNCHANGED <<db, provider, files, failed, nextSession, lastUpsert>>

\* any lawyer may download once the case is engaged
LawyerMayDownloadAnyLawyer(cs, user) == cs.status \in {CaseEngaged, CaseClosed}

\* the accepted lawyer, and only while the case is engaged or closed
LawyerMayDownload(cs, user) ==
    /\ cs.status \in {CaseEngaged, CaseClosed}
    /\ cs.acceptedLawyer = user

\* GET /files/:fileID/signed-url; the file of case f has id f
SignedDownloadURL(p, user, f) ==
    /\ Begin(p)
    /\ LET l == [IdleLoc EXCEPT !.op = "SignedDownloadURL", !.caller = user,
                                !.caseId = f]
       IN  IF f \notin files THEN Respond(p, l, ErrNotFound)
           ELSE IF \/ RoleOf(user) = "client" /\ cases[f].client = user
                   \/ RoleOf(user) = "lawyer" /\ LawyerMayDownload(cases[f], user)
             THEN Respond(p, l, "ok")
           ELSE Respond(p, l, ErrForbidden)
    /\ UNCHANGED <<db, provider, files, resp, failed, nextSession, lastUpsert>>

\* files may be deleted while the case is open or engaged
canDeleteFilesOpenEngaged(st) == st \in {CaseOpen, CaseEngaged}

\* files may be deleted while the case is open or cancelled
canDeleteFiles(st) == st \in {CaseOpen, CaseCancelled}

\* DELETE /files/:fileID: load the file with its case and check
DeleteFileStart(p, user, f) ==
    /\ Begin(p)
    /\ LET l == [IdleLoc EXCEPT !.op = "DeleteFile", !.caller = user, !.caseId = f]
       IN  IF RoleOf(user) # "client" THEN Respond(p, l, ErrForbidden)
           ELSE IF f \notin files THEN Respond(p, l, ErrNotFound)
           ELSE IF cases[f].client # user THEN Respond(p, l, ErrForbidden)
           ELSE IF ~canDeleteFiles(cases[f].status) THEN Respond(p, l, ErrForbidden)
           ELSE SetLoc(p, [l EXCEPT !.pc = "DF_delete", !.cs = <<cases[f]>>])
    /\ UNCHANGED <<db, provider, files, resp, failed, nextSession, lastUpsert>>

\* DELETE FROM case_files WHERE id = f
DeleteFileDelete(p) ==
    /\ loc[p].pc = "DF_delete"
    /\ files' = files \ {loc[p].caseId}
    /\ Return(p, "ok")
    /\ UNCHANGED <<db, provider, resp, failed, opCount, nextSession, lastUpsert>>

DeleteFile(p) ==
    \/ \E user \in Users, f \in Cases \cup {MissingCase} : DeleteFileStart(p, user, f)
    \/ DeleteFileDelete(p)

\* the INSERT of LogCaseHistory fails inside the settlement transaction and the
\* error is dropped.  Either the statement never reached the server and the
\* transaction goes on without the audit row, or the server rejected it and
\* PostgreSQL has aborted the transaction
MockCompleteLogFail(p) ==
    /\ loc[p].pc = "MC_engage"
    /\ \E ab \in BOOLEAN :
          SetLoc(p, [loc[p] EXCEPT
              !.pc = "MC_pay",
              !.wqs = AcceptAndReject(loc[p].caseId, loc[p].q[1].id),
              !.wcase = <<EngageWrite(loc[p].q[1])>>,
              !.aborted = ab])
    /\ UNCHANGED <<db, provider, files, resp, failed, opCount, nextSession, lastUpsert>>

StripeWebhookLogFail(p) ==
    /\ loc[p].pc = "SW_engage"
    /\ \E ab \in BOOLEAN :
          SetLoc(p, [loc[p] EXCEPT
              !.pc = "SW_pay",
              !.wqs = AcceptAndReject(loc[p].caseId, loc[p].q[1].id),
              !.wcase = <<EngageWrite(loc[p].q[1])>>,
              !.aborted = ab])
    /\ UNCHANGED <<db, provider, files, resp, failed, opCount, nextSession, lastUpsert>>

\* the UPDATE of the payment in an aborted transaction fails: rollback and 500
MockCompleteAborted(p) ==
    /\ loc[p].pc = "MC_pay"
    /\ loc[p].aborted
    /\ Return(p, "Internal")
    /\ RolledBack(p)
    /\ UNCHANGED <<db, provider, files, resp, opCount, nextSession, lastUpsert>>

StripeWebhookAborted(p) ==
    /\ loc[p].pc = "SW_pay"
    /\ loc[p].aborted
    /\ Return(p, "Internal")
    /\ RolledBack(p)
    /\ UNCHANGED <<db, provider, files, resp, opCount, nextSession, lastUpsert>>

\* a statement of CreateCheckout returns an error (500), or session.New does
\* (502): the handler returns; it has no transaction to roll back
CreateCheckoutFail(p) ==
    /\ loc[p].pc \in {"CK_find", "CK_insert", "CK_session"}
    /\ \E r \in {"Internal", "BadGateway"} :
          /\ r = "BadGateway" => loc[p].pc = "CK_session"
          /\ Return(p, r)
    /\ UNCHANGED <<db, provider, files, resp, failed, opCount, nextSession, lastUpsert>>

\* the UPDATE of Cancel or Close returns an error: 500
CancelFail(p) ==
    /\ loc[p].pc = "CA_update"
    /\ Return(p, "Internal")
    /\ UNCHANGED <<db, provider, files, resp, failed, opCount, nextSession, lastUpsert>>

CloseFail(p) ==
    /\ loc[p].pc = "CL_update"
    /\ Return(p, "Internal")
    /\ UNCHANGED <<db, provider, files, resp, failed, opCount, nextSession, lastUpsert>>

(* --------------------------- specifications ---------------------------- *)

Next ==
    \E p \in Procs :
        \/ Upsert(p)
        \/ MockComplete(p)
        \/ StripeWebhook(p)
        \/ CreateCheckout(p)
        \/ Cancel(p)
        \/ Close(p)

Spec == Init /\ [][Next]_vars

\* a request that has started takes its next step; each request runs on its own
\* goroutine and the database grants a row lock once it is released
Continue(p) ==
    /\ loc[p].pc # "idle"
    /\ \/ Upsert(p) \/ MockComplete(p) \/ StripeWebhook(p)
       \/ CreateCheckout(p) \/ Cancel(p) \/ Close(p)

SpecLive == Spec /\ \A p \in Procs : WF_vars(Continue(p))

\* the database may fail any statement of a transaction
NextFault ==
    \/ Next
    \/ \E p \in Procs : UpsertFail(p) \/ MockCompleteFail(p) \/ StripeWebhookFail(p)
    \/ \E p \in Procs : CreateCheckoutFail(p) \/ CancelFail(p) \/ CloseFail(p)

SpecFault == Init /\ [][NextFault]_vars

\* the audit INSERT may fail; every other statement succeeds
NextAudit ==
    \/ Next
    \/ \E p \in Procs : MockCompleteLogFail(p) \/ StripeWebhookLogFail(p)
    \/ \E p \in Procs : MockCompleteAborted(p) \/ StripeWebhookAborted(p)

SpecAudit == Init /\ [][NextAudit]_vars

\* the handlers of Next and those of the case detail and the case files
NextAccess ==
    \/ Next
    \/ \E p \in Procs, user \in Users, c \in Cases \cup {MissingCase} :
          GetDetail(p, user, c) \/ SignedDownloadURL(p, user, c)
    \/ \E p \in Procs : DeleteFile(p)

SpecAccess == Init /\ [][NextAccess]_vars

\* only settlement attempts run, on a case with two quotes and their payments
NextSettle == \E p \in Procs : MockComplete(p) \/ StripeWebhook(p)

SpecSettle == InitBidding /\ [][NextSettle]_vars

(* ------------------------------ properties ----------------------------- *)

AllIdle == \A p \in Procs : loc[p].pc = "idle"

QuotesOfCase(c) == {i \in QuoteIds : quotes[i].caseId = c}
QuotesOf(c, lawyer) == {i \in QuotesOfCase(c) : quotes[i].lawyer = lawyer}
AcceptedOf(c) == {i \in QuotesOfCase(c) : quotes[i].status = QuoteAccepted}
Terminal(i) == quotes[i].status \in {QuoteAccepted, QuoteRejected}
PaidOf(c) == {i \in PayIds : payments[i].caseId = c /\ payments[i].status = PayPaid}

\* 200 responses
Success == {"ok", "ok-already-paid"}
Responded(op, r) == [op |-> op, ret |-> r]

\* a handler of slot p that had started returns in this step
Returns(p, op) == loc[p].op = op /\ loc[p].pc # "idle" /\ loc'[p].pc = "idle"

\* C1 -- Single winner: when only settlement attempts run on a case whose
\* quotes each have a payment record, then once all attempts have finished and
\* one of them has settled a record, exactly one quote of the case is ACCEPTED,
\* the case is ENGAGED with accepted_quote_id naming that quote, and every other
\* quote of the case is REJECTED.
C1_SingleWinner ==
    \A c \in Cases :
        (AllIdle /\ PaidOf(c) # {}) =>
            \E w \in QuotesOfCase(c) :
                /\ AcceptedOf(c) = {w}
                /\ cases[c].status = CaseEngaged
                /\ cases[c].acceptedQuote = w
                /\ \A j \in QuotesOfCase(c) \ {w} : quotes[j].status = QuoteRejected

\* both records were settled and the attempt for the second quote won
C1_Witness ==
    /\ AllIdle
    /\ payments[1].status = PayPaid /\ payments[2].status = PayPaid
    /\ cases[1].status = CaseEngaged /\ cases[1].acceptedQuote = 2
    /\ quotes[1].status = QuoteRejected

\* C2 -- In every committed state a case has at most one ACCEPTED quote, and a
\* quote that is ACCEPTED stays ACCEPTED and stays the only ACCEPTED quote of its
\* case after every step of every handler.
C2_AcceptedSingleton ==
    /\ [](\A c \in Cases : Cardinality(AcceptedOf(c)) <= 1)
    /\ [][\A i \in QuoteIds :
            quotes[i].status = QuoteAccepted =>
                /\ quotes'[i].status = QuoteAccepted
                /\ \A j \in 1..Len(quotes') :
                      (quotes'[j].caseId = quotes[i].caseId
                       /\ quotes'[j].status = QuoteAccepted) => j = i]_vars

\* a quote is ACCEPTED and a Cancel has been applied to its case afterwards
C2_Witness ==
    \E i \in QuoteIds :
        /\ quotes[i].status = QuoteAccepted
        /\ cases[quotes[i].caseId].status = CaseCancelled
        /\ AllIdle

\* a settlement attempt that names the settled record pid and passes the guards
\* of its handler
DuplicateAttempt(p, pid) ==
    /\ payments[pid].status = PayPaid
    /\ \/ provider = "mock" /\ MockCompleteStart(p, pid, TRUE)
       \/ \E intent \in {0, IntentOf(pid)}, receipt \in BOOLEAN :
             StripeWebhookStart(p, pid, intent, receipt)

\* C3 -- Idempotent settlement: an attempt, by either handler, on a record that
\* is PAID returns success in that step and changes no case, quote, payment or
\* audit row, and the case of the record has exactly one ACCEPTED quote and is
\* ENGAGED.
C3_IdempotentSettlement ==
    [][\A p \in Procs : \A pid \in PayIds :
         DuplicateAttempt(p, pid) =>
            /\ loc'[p].pc = "idle"
            /\ last'.ret \in Success
            /\ last'.op \in {"MockComplete", "StripeWebhook"}
            /\ db' = db
            /\ Cardinality(AcceptedOf(payments[pid].caseId)) = 1
            /\ cases[payments[pid].caseId].status = CaseEngaged]_vars

\* MockComplete has answered "already paid" for the record of the winning quote
C3_Witness ==
    /\ last = Responded("MockComplete", "ok-already-paid")
    /\ payments[1].status = PayPaid
    /\ payments[2].status = PayInitiated
    /\ AcceptedOf(1) = {1}

\* C4 -- Settlement is all-or-nothing: a case that is ENGAGED with accepted
\* quote q has a PAID payment record for q, no payment record is PAID while its
\* case is OPEN, and a settlement attempt that ends with an error leaves every
\* table as it was.
C4_AllOrNothing ==
    /\ [](\A c \in Cases :
            cases[c].status = CaseEngaged =>
                \E i \in PayIds : /\ payments[i].quoteId = cases[c].acceptedQuote
                                  /\ payments[i].status = PayPaid)
    /\ [](\A i \in PayIds :
            payments[i].status = PayPaid => cases[payments[i].caseId].status # CaseOpen)
    /\ [][\A p \in Procs :
            ((Returns(p, "MockComplete") \/ Returns(p, "StripeWebhook"))
               /\ last'.ret \notin Success) => db' = db]_vars

\* one attempt engaged the case and the attempt for the other record failed in
\* the database, leaving that record INITIATED
C4_Witness ==
    /\ last = Responded("StripeWebhook", "Internal")
    /\ cases[1].status = CaseEngaged
    /\ PaidOf(1) = {1}
    /\ payments[2].status = PayInitiated

\* C5 -- Closed to new offers: a valid Upsert on a case that is ENGAGED, CLOSED
\* or CANCELLED returns Conflict and writes nothing, whoever the lawyer is and
\* whatever quote the lawyer has on the case.
C5_ClosedToNewOffers ==
    [][\A p \in Procs : \A lawyer \in Lawyers : \A c \in Cases : \A in \in UpsertInputs :
         (/\ Validate(in)
          /\ cases[c].status \in {CaseEngaged, CaseClosed, CaseCancelled}
          /\ UpsertStart(p, lawyer, c, in))
         => /\ loc'[p].pc = "idle"
            /\ last' = Responded("Upsert", "Conflict")
            /\ db' = db]_vars

\* an Upsert was refused on a CLOSED case on which every seeded lawyer has a quote
C5_Witness ==
    /\ last = Responded("Upsert", "Conflict")
    /\ cases[1].status = CaseClosed
    /\ Len(quotes) = 2

\* C6 -- One active offer per bidder: there is at most one quote row per (case,
\* lawyer), it exists exactly when that lawyer has committed an Upsert on the
\* case, its amount, days and (trimmed) note are those of the last Upsert of the
\* lawyer to commit, it is PROPOSED while the case is OPEN, and a row never
\* changes its id, case or lawyer.
C6_OneOfferPerBidder ==
    /\ [](\A c \in Cases : \A l \in Lawyers :
            /\ Cardinality(QuotesOf(c, l)) <= 1
            /\ (QuotesOf(c, l) = {}) <=> (lastUpsert[c][l] = NoInput)
            /\ \A i \in QuotesOf(c, l) :
                  /\ quotes[i].amount = lastUpsert[c][l].amount
                  /\ quotes[i].days = lastUpsert[c][l].days
                  /\ quotes[i].note = TrimSpace(lastUpsert[c][l].note)
                  /\ cases[c].status = CaseOpen => quotes[i].status = QuoteProposed)
    /\ [][\A i \in QuoteIds :
            /\ i \in 1..Len(quotes')
            /\ quotes'[i].caseId = quotes[i].caseId
            /\ quotes'[i].lawyer = quotes[i].lawyer]_vars

\* the row of L1 was updated in place to the second payload
C6_Witness ==
    /\ Len(quotes) = 2
    /\ quotes[1].lawyer = "L1"
    /\ quotes[1].amount = 2 /\ quotes[1].days = 2 /\ quotes[1].note = <<"b">>
    /\ quotes[1].status = QuoteProposed
    /\ last = Responded("Upsert", "ok")

\* C7 -- Offer immutability after terminal: a quote that is ACCEPTED or REJECTED
\* is never changed again, and a valid Upsert by its lawyer for its case that
\* returns while the quote is terminal returns Conflict and writes nothing.
C7_ImmutableAfterTerminal ==
    [][/\ \A i \in QuoteIds : Terminal(i) => quotes'[i] = quotes[i]
       /\ \A p \in Procs :
            /\ \A lawyer \in Lawyers : \A c \in Cases : \A in \in UpsertInputs :
                 (/\ Validate(in)
                  /\ \E i \in QuotesOf(c, lawyer) : Terminal(i)
                  /\ UpsertStart(p, lawyer, c, in)
                  /\ loc'[p].pc = "idle")
                 => (last' = Responded("Upsert", "Conflict") /\ db' = db)
            /\ (/\ Returns(p, "Upsert")
                /\ \E i \in QuotesOf(loc[p].caseId, loc[p].caller) : Terminal(i))
                 => (last' = Responded("Upsert", "Conflict") /\ db' = db)]_vars

\* an Upsert was refused while the quotes of the case are ACCEPTED and REJECTED
C7_Witness ==
    /\ last = Responded("Upsert", "Conflict")
    /\ cases[1].status = CaseEngaged
    /\ quotes[1].status = QuoteAccepted
    /\ quotes[2].status = QuoteRejected

\* C8 -- No quote of a case that is not OPEN changes status; a quote changes
\* status only from PROPOSED to ACCEPTED or REJECTED, and only in the commit of a
\* settlement transaction that takes its case from OPEN to ENGAGED.
C8_QuoteStatusChanges ==
    [][\A i \in QuoteIds :
         LET c == quotes[i].caseId
         IN  /\ cases[c].status # CaseOpen => quotes'[i].status = quotes[i].status
             /\ quotes'[i].status # quotes[i].status =>
                  /\ quotes[i].status = QuoteProposed
                  /\ quotes'[i].status \in {QuoteAccepted, QuoteRejected}
                  /\ cases[c].status = CaseOpen
                  /\ cases'[c].status = CaseEngaged
                  /\ \E p \in Procs :
                        MockCompleteCommit(p) \/ StripeWebhookCommit(p)]_vars

\* one settlement has swept the case: a winner, a loser, one record settled
C8_Witness ==
    /\ cases[1].status = CaseEngaged
    /\ quotes[2].status = QuoteAccepted
    /\ quotes[1].status = QuoteRejected
    /\ payments[1].status = PayInitiated

\* C9 -- Upsert re-validates the case under the case row lock: an Upsert commits
\* only while its case is OPEN, an Upsert that takes the lock after the case has
\* left OPEN returns Conflict and writes nothing, and no case that is ENGAGED or
\* CLOSED has a PROPOSED quote.
C9_UpsertUnderLock ==
    /\ [](\A c \in Cases :
            cases[c].status \in {CaseEngaged, CaseClosed} =>
                \A i \in QuotesOfCase(c) : quotes[i].status # QuoteProposed)
    /\ [][\A p \in Procs :
            /\ UpsertCommit(p) =>
                 (cases[loc[p].caseId].status = CaseOpen
                  /\ cases'[loc[p].caseId].status = CaseOpen)
            /\ (UpsertLockCase(p) /\ cases[loc[p].caseId].status # CaseOpen) =>
                 (/\ loc'[p].pc = "idle"
                  /\ last' = Responded("Upsert", "Conflict")
                  /\ db' = db)]_vars

\* an Upsert passed the pre-check and a settlement engaged the case before the
\* Upsert took the lock
C9_Witness ==
    \E p \in Procs :
        /\ loc[p].pc = "U_lock"
        /\ cases[loc[p].caseId].status = CaseEngaged
        /\ AcceptedOf(loc[p].caseId) # {}

\* C10 -- accepted_quote_id is set if and only if the case is ENGAGED or CLOSED.
C10_AcceptedIffEngaged ==
    \A c \in Cases :
        (cases[c].acceptedQuote # 0) <=> (cases[c].status \in {CaseEngaged, CaseClosed})

\* C11 -- The status guard of Cancel and Close is atomic with the write: the
\* only changes of a case status are OPEN->ENGAGED, OPEN->CANCELLED and
\* ENGAGED->CLOSED, so a Cancel that read OPEN never overwrites an engaged case
\* and CLOSED and CANCELLED are never left.
C11_CaseTransitions ==
    [][\A c \in Cases :
         cases'[c].status # cases[c].status =>
            <<cases[c].status, cases'[c].status>> \in
                { <<CaseOpen, CaseEngaged>>, <<CaseOpen, CaseCancelled>>,
                  <<CaseEngaged, CaseClosed>> }]_vars

\* the response of a Cancel or Close called by caller on case c in this state
GuardOutcome(caller, c, allowed) ==
    IF c \notin Cases THEN "NotFound"
    ELSE IF cases[c].client # caller THEN "Forbidden"
    ELSE IF cases[c].status \notin allowed THEN "Conflict"
    ELSE "proceed"

\* C12 -- Cancel goes ahead only when called by the owner on an OPEN case and
\* then sets CANCELLED, Close only when called by the owner on an ENGAGED case
\* and then sets CLOSED; otherwise the call returns NotFound for a missing case,
\* Forbidden for a non-owner, Conflict for any other status, and every call
\* that returns an error changes no table.
C12_CancelCloseGuards ==
    [][\A p \in Procs :
        /\ \A caller \in Clients : \A c \in Cases \cup {MissingCase} :
            /\ CancelStart(p, caller, c) =>
                 LET g == GuardOutcome(caller, c, {CaseOpen})
                 IN  IF g = "proceed"
                       THEN loc'[p].pc = "CA_update" /\ db' = db
                       ELSE /\ loc'[p].pc = "idle"
                            /\ last' = Responded("Cancel", g)
                            /\ db' = db
            /\ CloseStart(p, caller, c) =>
                 LET g == GuardOutcome(caller, c, {CaseEngaged})
                 IN  IF g = "proceed"
                       THEN loc'[p].pc = "CL_update" /\ db' = db
                       ELSE /\ loc'[p].pc = "idle"
                            /\ last' = Responded("Close", g)
                            /\ db' = db
        /\ CancelUpdate(p) =>
             /\ cases'[loc[p].caseId] =
                  [cases[loc[p].caseId] EXCEPT !.status = CaseCancelled]
             /\ loc[p].caller = cases[loc[p].caseId].client
             /\ loc[p].old = CaseOpen
        /\ CloseUpdate(p) =>
             /\ cases'[loc[p].caseId] =
                  [cases[loc[p].caseId] EXCEPT !.status = CaseClosed]
             /\ loc[p].caller = cases[loc[p].caseId].client
             /\ loc[p].old = CaseEngaged
        /\ ((Returns(p, "Cancel") \/ Returns(p, "Close")) /\ last'.ret # "ok")
             => db' = db
        /\ (Returns(p, "Cancel") /\ last'.ret = "ok") => loc[p].pc = "CA_log"
        /\ (Returns(p, "Close") /\ last'.ret = "ok") => loc[p].pc = "CL_log"]_vars

\* the owner's Close was refused on a case that a Cancel had cancelled
C12_Witness ==
    /\ last = Responded("Close", "Conflict")
    /\ cases[1].status = CaseCancelled
    /\ \E i \in 1..Len(hist) : hist[i].action = "cancelled"

\* C13 -- as stated: a payment record is PAID if and only if its case is ENGAGED
\* or CLOSED with the quote of that record as the accepted quote.
C13_SameDisposition ==
    \A i \in PayIds :
        (payments[i].status = PayPaid) <=>
            /\ cases[payments[i].caseId].status \in {CaseEngaged, CaseClosed}
            /\ cases[payments[i].caseId].acceptedQuote = payments[i].quoteId

\* C13 -- as the program behaves: a PAID record belongs to a case that has left
\* OPEN; a case that is ENGAGED or CLOSED has a PAID record for its accepted
\* quote, and that quote is ACCEPTED; a PAID record whose quote is ACCEPTED is a
\* record of the accepted quote of its case.  A record of another quote may be
\* PAID as well.
C13_DispositionAmended ==
    /\ \A i \in PayIds :
          payments[i].status = PayPaid =>
             /\ cases[payments[i].caseId].status # CaseOpen
             /\ quotes[payments[i].quoteId].status = QuoteAccepted =>
                   cases[payments[i].caseId].acceptedQuote = payments[i].quoteId
    /\ \A c \in Cases :
          cases[c].status \in {CaseEngaged, CaseClosed} =>
             /\ cases[c].acceptedQuote \in QuoteIds
             /\ quotes[cases[c].acceptedQuote].status = QuoteAccepted
             /\ \E i \in PayIds : /\ payments[i].quoteId = cases[c].acceptedQuote
                                  /\ payments[i].caseId = c
                                  /\ payments[i].status = PayPaid

\* the record of the losing quote was settled after the case was engaged and closed
C13_Witness ==
    /\ AllIdle
    /\ cases[1].status = CaseClosed
    /\ cases[1].acceptedQuote = 1
    /\ quotes[2].status = QuoteRejected
    /\ payments[1].status = PayPaid
    /\ payments[2].status = PayPaid

\* C14 -- A settlement attempt on an INITIATED payment whose case is not OPEN and
\* whose amount matches its quote takes the branch without the sweep, and its
\* commit changes no case and no quote, appends no audit entry, changes only the
\* status (and the payment intent) of that payment, to PAID, and returns success.
C14_NotOpenFrame ==
    [][\A p \in Procs :
        /\ ( /\ MockCompleteLockCase(p) \/ StripeWebhookLockCase(p)
             /\ cases[loc[p].pay[1].caseId].status # CaseOpen
             /\ loc[p].pay[1].amount = quotes[loc[p].pay[1].quoteId].amount )
           => (loc'[p].pc \in {"MC_pay", "SW_pay"} /\ db' = db)
        /\ ( /\ MockCompleteCommit(p) \/ StripeWebhookCommit(p)
             /\ cases[loc[p].caseId].status # CaseOpen )
           => LET id == loc[p].payId
              IN  /\ cases' = cases
                  /\ quotes' = quotes
                  /\ hist' = hist
                  /\ payments[id].status = PayInitiated
                  /\ payments' = [payments EXCEPT
                        ![id].status = PayPaid,
                        ![id].intent = payments'[id].intent]
                  /\ last'.ret = "ok"
                  /\ last'.op \in {"MockComplete", "StripeWebhook"}]_vars

\* a record of a CANCELLED case was settled: the case and its quotes are as the
\* Cancel left them
C14_Witness ==
    /\ cases[1].status = CaseCancelled
    /\ cases[1].acceptedQuote = 0
    /\ Len(payments) = 2 /\ Len(quotes) = 2
    /\ payments[1].status = PayPaid
    /\ quotes[1].status = QuoteProposed /\ quotes[2].status = QuoteProposed
    /\ Len(hist) = 2
    /\ last.ret = "ok" /\ last.op \in {"MockComplete", "StripeWebhook"}

\* a settlement transaction that has passed its first statement
InSettlement(p) == loc[p].op \in {"MockComplete", "StripeWebhook"} /\ loc[p].pc # "idle"

\* C15 -- Concurrent settlement attempts for two quotes of one OPEN case are
\* serialized by the case row lock: no two transactions hold it together; an
\* attempt that commits when another record of the case is already PAID changes
\* no case and no quote and still marks its own record PAID; every attempt that
\* reached its transaction returns success; and when both records are PAID and
\* all attempts have finished exactly one quote is ACCEPTED.
C15_SerializedSettlements ==
    /\ [](\A p \in Procs : \A o \in Procs \ {p} : \A c \in Cases :
             ~(HoldsCaseLock(p, c) /\ HoldsCaseLock(o, c)))
    /\ [][\A p \in Procs :
            /\ ( /\ MockCompleteCommit(p) \/ StripeWebhookCommit(p)
                 /\ \E i \in PayIds \ {loc[p].payId} :
                       /\ payments[i].caseId = loc[p].caseId
                       /\ payments[i].status = PayPaid )
               => /\ cases' = cases
                  /\ quotes' = quotes
                  /\ payments'[loc[p].payId].status = PayPaid
            /\ (InSettlement(p) /\ loc'[p].pc = "idle") => last'.ret = "ok"]_vars
    /\ [](( /\ AllIdle
            /\ payments[1].status = PayPaid
            /\ payments[2].status = PayPaid )
          => /\ Cardinality(AcceptedOf(1)) = 1
             /\ cases[1].status = CaseEngaged)

\* the first attempt is about to commit its sweep while the attempt for the
\* other record waits for the case row lock
C15_Witness ==
    \E p \in Procs : \E o \in Procs \ {p} :
        /\ loc[p].pc \in {"MC_commit", "SW_commit"}
        /\ loc[p].wcase # <<>>
        /\ loc[o].pc \in {"MC_lockCase", "SW_lockCase"}
        /\ loc[o].payId # loc[p].payId
        /\ payments[loc[o].payId].caseId = loc[p].caseId

\* C16 -- Amount-mismatch abort: a settlement attempt that has locked an
\* INITIATED payment whose amount differs from the current amount of its quote
\* returns Conflict and changes no table: the payment stays INITIATED, the case,
\* the quotes and the audit trail are as they were.
C16_AmountMismatchAbort ==
    [][\A p \in Procs :
         ( /\ MockCompleteLockCase(p) \/ StripeWebhookLockCase(p)
           /\ loc[p].pay[1].amount # quotes[loc[p].pay[1].quoteId].amount )
         => /\ loc'[p].pc = "idle"
            /\ last'.ret = "Conflict"
            /\ last'.op = loc[p].op
            /\ db' = db
            /\ payments'[loc[p].payId].status = PayInitiated]_vars

\* the lawyer raised the amount of quote 1 after its checkout, and the
\* settlement of record 1 was refused
C16_Witness ==
    /\ last.ret = "Conflict"
    /\ last.op \in {"MockComplete", "StripeWebhook"}
    /\ Len(payments) = 2
    /\ payments[1].amount = 1 /\ quotes[1].amount = 2
    /\ payments[1].status = PayInitiated
    /\ cases[1].status = CaseOpen

\* the payment rows of quote q whose status is not FAILED
LiveRecordsOf(q) == {i \in PayIds : payments[i].quoteId = q /\ payments[i].status # PayFailed}

\* C17 -- After any interleaving of CreateCheckout calls there is at most one
\* payment row that is not FAILED per quote, and a call that finds an INITIATED
\* row for its quote inserts none.
C17_OneRecordPerQuote ==
    /\ [](\A q \in QuoteIds : Cardinality(LiveRecordsOf(q)) <= 1)
    /\ [][\A p \in Procs :
            (CreateCheckoutFind(p) /\ LiveRecordsOf(loc[p].quoteId) # {})
               => (payments' = payments /\ loc'[p].pc # "CK_insert")]_vars

\* C18 -- A payment changes status at most once, from INITIATED to PAID, and only
\* in the commit of a settlement transaction on that payment; a PAID payment
\* stays PAID, and no settlement transaction writes the status of a payment that
\* is already PAID.
C18_PaidOnce ==
    [][/\ \A i \in PayIds :
            /\ payments'[i].status # payments[i].status =>
                 /\ payments[i].status = PayInitiated
                 /\ payments'[i].status = PayPaid
                 /\ \E p \in Procs : /\ loc[p].payId = i
                                     /\ MockCompleteCommit(p) \/ StripeWebhookCommit(p)
            /\ payments[i].status = PayPaid => payments'[i].status = PayPaid
       /\ \A p \in Procs :
            (MockCompletePay(p) \/ StripeWebhookPay(p)
               \/ MockCompleteCommit(p) \/ StripeWebhookCommit(p))
            => payments[loc[p].payId].status = PayInitiated]_vars

\* the webhook has settled record 2 and stored its payment intent; record 1 is
\* still INITIATED
C18_Witness ==
    /\ AllIdle
    /\ Len(payments) = 2
    /\ payments[2].status = PayPaid /\ payments[2].intent = IntentOf(2)
    /\ payments[1].status = PayInitiated
    /\ last = Responded("StripeWebhook", "ok")

\* C19 -- Once the stripe_session_id or the stripe_payment_intent of a payment is
\* populated, no later step changes it to another value.
C19_CorrelationIdsImmutable ==
    [][\A i \in PayIds :
         /\ payments[i].session # 0 => payments'[i].session = payments[i].session
         /\ payments[i].intent # 0 => payments'[i].intent = payments[i].intent]_vars

\* a handler returns Conflict in this step, either at once or from a later
\* statement
ConflictReturned ==
    /\ last'.ret = "Conflict"
    /\ \/ opCount' # opCount /\ loc' = loc
       \/ \E p \in Procs : loc[p].pc # "idle" /\ loc'[p].pc = "idle"

\* the check that refused the call ran in a transaction that holds the row lock
\* (for Upsert the same check is also made before the transaction begins)
DetectedUnderLock ==
    \/ \E p \in Procs :
          /\ loc[p].pc \in {"U_lock", "U_write", "MC_lockCase", "SW_lockCase"}
          /\ loc'[p].pc = "idle"
    \/ opCount' # opCount /\ last'.op = "Upsert"

LockedCaseOf(p) ==
    IF loc[p].pc \in {"MC_lockCase", "SW_lockCase"} THEN loc[p].pay[1].caseId
    ELSE loc[p].caseId

ErrorReturned(p) ==
    /\ loc[p].pc # "idle" /\ loc'[p].pc = "idle"
    /\ last'.ret \in {"Internal", "BadGateway"}

\* C21 -- Every operation that ends with an internal or provider error leaves
\* the store as it was before the operation began; a CreateCheckout that fails
\* at session.New or at saving the session id leaves no payment row it inserted.
C21_ErrorsLeaveStoreUnchanged ==
    [][\A p \in Procs :
         ErrorReturned(p) => (db' = db /\ ~loc[p].inserted)]_vars

\* the 'engaged' audit entries of case c
EngagedEntries(c) == {i \in 1..Len(hist) : hist[i].caseId = c /\ hist[i].action = "engaged"}

\* C22 -- An 'engaged' audit entry is appended only by the commit of a settlement
\* that takes its case from OPEN to ENGAGED; each case has at most one such
\* entry, and only a case that was engaged has one.
C22_EngagedEntryOnce ==
    /\ [](\A c \in Cases :
            /\ Cardinality(EngagedEntries(c)) <= 1
            /\ EngagedEntries(c) # {} =>
                  (cases[c].engagedAt /\ cases[c].acceptedQuote # 0))
    /\ [][\A c \in Cases :
            LET new == {i \in 1..Len(hist') : /\ i > Len(hist)
                                              /\ hist'[i].caseId = c
                                              /\ hist'[i].action = "engaged"}
            IN  new # {} =>
                  /\ cases[c].status = CaseOpen
                  /\ cases'[c].status = CaseEngaged
                  /\ Cardinality(new) = 1
                  /\ \E p \in Procs :
                        MockCompleteCommit(p) \/ StripeWebhookCommit(p)]_vars

\* the case was engaged and cancelled by a racing Cancel, the record of the
\* losing quote was settled afterwards: still one 'engaged' entry
C22_Witness ==
    /\ AllIdle
    /\ Len(payments) = 2
    /\ payments[1].status = PayPaid /\ payments[2].status = PayPaid
    /\ Cardinality(EngagedEntries(1)) = 1

\* the settlement of slot p has made the OPEN -> ENGAGED writes and its audit
\* INSERT has failed
AuditFailed(p) ==
    /\ loc[p].pc \in {"MC_pay", "MC_commit", "SW_pay", "SW_commit"}
    /\ loc[p].wcase # <<>>
    /\ loc[p].whist = <<>>

\* C23 -- A failure to write the audit entry does not roll back the settlement:
\* a settlement that made the transition and whose audit write failed returns
\* success, with its quote ACCEPTED, the case ENGAGED and its payment PAID.
C23_AuditFailureKeepsSettlement ==
    [][\A p \in Procs :
         (AuditFailed(p) /\ loc'[p].pc = "idle") =>
            /\ last'.ret \in Success
            /\ quotes'[loc[p].q[1].id].status = QuoteAccepted
            /\ cases'[loc[p].caseId].status = CaseEngaged
            /\ payments'[loc[p].payId].status = PayPaid]_vars

\* slot p takes a step of CreateCheckout
CheckoutStep(p) ==
    \/ \E caller \in Clients, qid \in QuoteIds \cup {Len(quotes) + 1} :
          CreateCheckoutStart(p, caller, qid)
    \/ loc[p].op = "CreateCheckout" /\ loc[p].pc # "idle" /\ loc'[p] # loc[p]

\* C24 -- CreateCheckout is bookkeeping only: no step of it changes a case, a
\* quote, an audit row or the status of an existing payment.  It answers
\* NotFound for a missing quote, Forbidden to a caller who does not own the case
\* and Conflict for a case that is not OPEN, and goes on otherwise; it answers
\* Conflict when the payment it found for the quote is PAID; the only payment it
\* adds is one INITIATED row for the quote, after it read the case as OPEN and
\* owned by the caller.
C24_CheckoutBookkeeping ==
    [][\A p \in Procs :
        /\ CheckoutStep(p) =>
             /\ cases' = cases /\ quotes' = quotes /\ hist' = hist
             /\ Len(payments') \in {Len(payments), Len(payments) + 1}
             /\ \A i \in 1..Len(payments) :
                   payments'[i].status = payments[i].status
        /\ \A caller \in Clients : \A qid \in QuoteIds \cup {Len(quotes) + 1} :
             CreateCheckoutStart(p, caller, qid) =>
               LET g == IF qid \notin QuoteIds THEN "NotFound"
                        ELSE GuardOutcome(caller, quotes[qid].caseId, {CaseOpen})
               IN  IF g = "proceed"
                     THEN loc'[p].pc = "CK_find" /\ payments' = payments
                     ELSE /\ loc'[p].pc = "idle"
                          /\ last' = Responded("CreateCheckout", g)
                          /\ payments' = payments
        /\ (loc[p].pc = "CK_find" /\ loc'[p] # loc[p]) =>
             LET found == {i \in PayIds : payments[i].quoteId = loc[p].quoteId}
             IN  (found # {} /\ payments[Min(found)].status = PayPaid) =>
                    /\ loc'[p].pc = "idle"
                    /\ last' = Responded("CreateCheckout", "Conflict")
                    /\ payments' = payments
        /\ (CheckoutStep(p) /\ Len(payments') > Len(payments)) =>
             /\ loc[p].pc = "CK_insert"
             /\ loc[p].cs[1].status = CaseOpen
             /\ loc[p].cs[1].client = loc[p].caller
             /\ cases[loc[p].caseId].client = loc[p].caller
             /\ payments'[Len(payments')].status = PayInitiated
             /\ payments'[Len(payments')].quoteId = loc[p].quoteId
             /\ payments'[Len(payments')].caseId = loc[p].caseId]_vars

\* the owner's checkout of the only quote of an OPEN case has added the first
\* payment row
C24_Witness ==
    /\ last = Responded("CreateCheckout", "ok")
    /\ Len(quotes) = 1
    /\ Len(payments) = 1
    /\ payments[1].status = PayInitiated
    /\ payments[1].quoteId = 1
    /\ cases[1].status = CaseOpen

Uninterrupted(v, pid) ==
    LET c == payments[pid].caseId
        q == payments[pid].quoteId
    IN  IF v.ps[pid] = PayPaid THEN v
        ELSE IF v.cs[c].status = CaseOpen
          THEN [cs |-> [v.cs EXCEPT ![c] = [status |-> CaseEngaged,
                                            acceptedQuote |-> q,
                                            acceptedLawyer |-> quotes[q].lawyer]],
                qs |-> [i \in DOMAIN v.qs |->
                          IF i = q THEN QuoteAccepted
                          ELSE IF quotes[i].caseId = c /\ v.qs[i] = QuoteProposed
                            THEN QuoteRejected
                          ELSE v.qs[i]],
                ps |-> [v.ps EXCEPT ![pid] = PayPaid]]
        ELSE [v EXCEPT !.ps[pid] = PayPaid]

\* slot p commits a settlement of the payment whose last attempt was rolled back
RetryCommits(p) ==
    /\ MockCompleteCommit(p) \/ StripeWebhookCommit(p)
    /\ failed # <<>>
    /\ failed[1].payId = loc[p].payId

\* C29 -- A settlement attempt that fails before its commit, at whatever step,
\* leaves every table as it was and keeps nothing of the attempt; when the
\* attempt is retried and the retry commits on a store whose case statuses,
\* accepted pointers, quote statuses and payment statuses are those of the
\* moment of the failure, the store after the commit is the one an
\* uninterrupted attempt would have left, and the retry returns success.
C29_RetryIsSafe ==
    [][\A p \in Procs :
        /\ (InSettlement(p) /\ loc'[p].pc = "idle" /\ last'.ret = "Internal") =>
              /\ db' = db
              /\ loc'[p] = IdleLoc
              /\ failed' = <<[payId |-> loc[p].payId, view |-> SettlementView]>>
        /\ (RetryCommits(p) /\ failed[1].view = SettlementView) =>
              /\ SettlementView' = Uninterrupted(failed[1].view, loc[p].payId)
              /\ last'.ret \in Success]_vars

\* the attempt on payment 1 was rolled back and its retry has settled the case
C29_Witness ==
    /\ AllIdle
    /\ failed # <<>>
    /\ failed[1].payId = 1
    /\ failed[1].view.cs[1].status = CaseOpen
    /\ Len(payments) = 2
    /\ SettlementView = Uninterrupted(failed[1].view, 1)
    /\ payments[1].status = PayPaid
    /\ cases[1].status = CaseEngaged
    /\ last.ret \in Success

\* the position of a settlement attempt, whichever handler runs it
Phase(pc) ==
    IF pc \in {"MC_lockCase", "SW_lockCase"} THEN "lockCase"
    ELSE IF pc \in {"MC_engage", "SW_engage"} THEN "engage"
    ELSE IF pc \in {"MC_pay", "SW_pay"} THEN "pay"
    ELSE IF pc \in {"MC_commit", "SW_commit"} THEN "commit"
    ELSE pc

\* an authenticated request for payment pid arrives at one of the two handlers
SettlementStarts(p, pid) ==
    \/ provider = "mock" /\ MockCompleteStart(p, pid, TRUE)
    \/ \E intent \in {0, IntentOf(pid)}, receipt \in BOOLEAN :
          StripeWebhookStart(p, pid, intent, receipt)

\* an audit row without its reason text
NoReason(h) == [caseId |-> h.caseId, actor |-> h.actor, action |-> h.action,
                old |-> h.old, new |-> h.new]

\* C30 -- MockComplete and StripeWebhook take the same settlement transition:
\* every step of either handler is the one step determined by the store, the
\* payment and the position of the attempt.  A request for a missing payment
\* is answered NotFound and one for a PAID payment with success, both without a
\* write; an amount mismatch is answered Conflict under the case lock; the
\* commit leaves the case status, accepted pointers, quote statuses and payment
\* statuses of an uninterrupted settlement and returns success, and its audit
\* row is the same but for the reason text.  Only the stored payment-intent id
\* and the reason depend on the handler.
C30_SameTransition ==
    [][\A p \in Procs :
        /\ \A pid \in PayIds \cup {MissingPay} :
             SettlementStarts(p, pid) =>
               /\ db' = db
               /\ IF pid \notin PayIds
                    THEN loc'[p].pc = "idle" /\ last'.ret = "NotFound"
                  ELSE IF payments[pid].status = PayPaid
                    THEN loc'[p].pc = "idle" /\ last'.ret \in Success
                  ELSE Phase(loc'[p].pc) = "lockCase" /\ loc'[p].payId = pid
        /\ (InSettlement(p) /\ loc'[p] # loc[p]) =>
             LET pid == loc[p].payId
                 c == payments[pid].caseId
                 q == payments[pid].quoteId
                 ph == Phase(loc[p].pc)
             IN  /\ ph = "lockCase" =>
                       /\ db' = db
                       /\ IF payments[pid].amount # quotes[q].amount
                            THEN loc'[p].pc = "idle" /\ last'.ret = "Conflict"
                            ELSE Phase(loc'[p].pc) =
                                   IF cases[c].status = CaseOpen THEN "engage"
                                   ELSE "pay"
                 /\ ph = "engage" => db' = db /\ Phase(loc'[p].pc) = "pay"
                 /\ ph = "pay" => db' = db /\ Phase(loc'[p].pc) = "commit"
                 /\ ph = "commit" =>
                       /\ loc'[p].pc = "idle" /\ last'.ret \in Success
                       /\ SettlementView' = Uninterrupted(SettlementView, pid)
                       /\ cases'[c].engagedAt =
                            (cases[c].engagedAt \/ cases[c].status = CaseOpen)
                       /\ \A i \in QuoteIds :
                             [quotes'[i] EXCEPT !.status = quotes[i].status]
                                = quotes[i]
                       /\ \A i \in PayIds :
                             /\ [payments'[i] EXCEPT
                                   !.status = payments[i].status,
                                   !.intent = payments[i].intent] = payments[i]
                             /\ payments'[i].intent # payments[i].intent =>
                                   /\ i = pid
                                   /\ loc[p].op = "StripeWebhook"
                                   /\ payments'[i].intent = IntentOf(pid)
                       /\ IF cases[c].status = CaseOpen
                            THEN /\ Len(hist') = Len(hist) + 1
                                 /\ SubSeq(hist', 1, Len(hist)) = hist
                                 /\ NoReason(hist'[Len(hist')]) =
                                      [caseId |-> c, actor |-> cases[c].client,
                                       action |-> "engaged", old |-> CaseOpen,
                                       new |-> CaseEngaged]
                            ELSE hist' = hist]_vars

\* MockComplete has settled payment 1 and engaged the case, StripeWebhook has
\* settled payment 2 of the same case and stored its payment intent
C30_Witness ==
    /\ AllIdle
    /\ Len(payments) = 2
    /\ payments[1].status = PayPaid /\ payments[1].intent = 0
    /\ payments[2].status = PayPaid /\ payments[2].intent = IntentOf(2)
    /\ cases[1].acceptedQuote = 1
    /\ \E i \in 1..Len(hist) : hist[i].action = "engaged" /\ hist[i].reason = "mock"

\* the status of the quote of lawyer u on case c, "none" when u has no quote
QuoteStatusOf(c, u) ==
    IF QuotesOf(c, u) = {} THEN "none" ELSE quotes[Min(QuotesOf(c, u))].status

\* C25 -- A request for the signed download URL of a stored case file is
\* answered with the URL or with Forbidden.  The owning client always gets the
\* URL; a lawyer gets it only if the case is ENGAGED or CLOSED and the lawyer is
\* its accepted lawyer; a lawyer whose quote on the case is PROPOSED or REJECTED,
\* or who has no quote on it, is refused with Forbidden; so is another client.
C25_SignedUrlAccess ==
    [][\A p \in Procs : \A user \in Users : \A f \in Cases :
         (SignedDownloadURL(p, user, f) /\ f \in files) =>
            /\ last'.op = "SignedDownloadURL"
            /\ last'.ret \in {"ok", "Forbidden"}
            /\ db' = db /\ files' = files
            /\ user = cases[f].client => last'.ret = "ok"
            /\ (user \in Clients /\ user # cases[f].client) => last'.ret = "Forbidden"
            /\ user \in Lawyers =>
                 /\ last'.ret = "ok" =>
                       /\ cases[f].status \in {CaseEngaged, CaseClosed}
                       /\ cases[f].acceptedLawyer = user
                       /\ QuoteStatusOf(f, user) = QuoteAccepted
                 /\ QuoteStatusOf(f, user) \in {QuoteProposed, QuoteRejected, "none"}
                       => last'.ret = "Forbidden"]_vars

\* the accepted lawyer of the engaged case has obtained the URL
C25_Witness ==
    /\ last = Responded("SignedDownloadURL", "ok")
    /\ AllIdle
    /\ cases[1].status = CaseEngaged
    /\ cases[1].acceptedLawyer = "L1"
    /\ \E i \in 1..Len(hist) : hist[i].action = "engaged"

\* the owner's case detail for case c is returned in this step
OwnerDetail(p, c) == GetDetail(p, cases[c].client, c)

\* C26 -- as stated: in the owner's case detail every quote note is returned
\* PII-redacted while the case is OPEN, and every quote note is returned as
\* stored once the case is ENGAGED.
C26_NotesByStatus ==
    [][\A p \in Procs : \A c \in Cases :
         OwnerDetail(p, c) =>
            /\ last'.ret = "ok"
            /\ {r.id : r \in resp'} = QuotesOfCase(c)
            /\ cases[c].status = CaseOpen =>
                  \A r \in resp' : r.note = RedactPII(quotes[r.id].note)
            /\ cases[c].status = CaseEngaged =>
                  \A r \in resp' : r.note = quotes[r.id].note]_vars

WaitsFor(p, o) ==
    \/ /\ loc[p].pc \in {"U_lock", "CA_update", "CL_update"}
       /\ HoldsCaseLock(o, loc[p].caseId)
    \/ /\ loc[p].pc \in {"MC_lockCase", "SW_lockCase"}
       /\ HoldsCaseLock(o, loc[p].pay[1].caseId)
    \/ /\ loc[p].pc = "CK_session"
       /\ HoldsPayLock(o, loc[p].payId)

HoldsALock(p) ==
    \/ \E c \in Cases : HoldsCaseLock(p, c)
    \/ \E i \in PayIds : HoldsPayLock(p, i)

\* C31 -- No interleaving of Upserts, settlement attempts, checkouts, Cancels and
\* Closes deadlocks.  A settlement that holds a case row lock holds the lock of
\* its payment row, taken before; an Upsert holds only the case row lock; a
\* slot that holds a case row lock waits for nothing, so no two slots wait for
\* each other; a slot that has returned holds no lock; and under fair
\* scheduling every started operation returns.
C31_NoDeadlock ==
    /\ [](\A p \in Procs :
            /\ \A c \in Cases :
                 (HoldsCaseLock(p, c) /\ InSettlement(p)) =>
                    /\ loc[p].payId \in PayIds
                    /\ HoldsPayLock(p, loc[p].payId)
                    /\ payments[loc[p].payId].caseId = c
            /\ loc[p].op = "Upsert" => \A i \in PayIds : ~HoldsPayLock(p, i)
            /\ loc[p].pc = "idle" => ~HoldsALock(p)
            /\ \A o \in Procs \ {p} :
                 /\ ~(WaitsFor(p, o) /\ WaitsFor(o, p))
                 /\ \A c \in Cases : ~(HoldsCaseLock(p, c) /\ HoldsCaseLock(o, c))
                 /\ \A i \in PayIds : ~(HoldsPayLock(p, i) /\ HoldsPayLock(o, i))
                 /\ (WaitsFor(p, o) /\ p # o) => ENABLED Continue(o))
    /\ \A p \in Procs : (loc[p].pc # "idle") ~> (loc[p].pc = "idle")

\* an Upsert waits for the case row lock that a settlement holds together with
\* the lock of its payment row
C31_Witness ==
    \E p \in Procs : \E o \in Procs \ {p} :
        /\ loc[p].pc = "U_lock"
        /\ WaitsFor(p, o)
        /\ InSettlement(o)
        /\ HoldsPayLock(o, loc[o].payId)

\* the settlement of slot p holds the case row lock and took it while the case
\* was OPEN
AcquiredOpen(p) ==
    /\ InSettlement(p)
    /\ Phase(loc[p].pc) \in {"engage", "pay", "commit"}
    /\ loc[p].cs[1].status = CaseOpen

\* C32 -- When settlement attempts for different quotes of one OPEN case race,
\* the attempt that takes the case row lock first, that is while the case is
\* still OPEN, is the one whose quote ends ACCEPTED: it is alone in holding the
\* lock, the case stays OPEN until it commits, its commit names its quote as the
\* accepted quote, and an attempt that takes the lock later changes no case and
\* no quote.  Quote 1 was submitted and its payment created before quote 2, and
\* either can win.
C32_FirstLockWins ==
    /\ [](\A p \in Procs :
            AcquiredOpen(p) =>
               /\ cases[loc[p].caseId].status = CaseOpen
               /\ AcceptedOf(loc[p].caseId) = {}
               /\ \A o \in Procs \ {p} : ~HoldsCaseLock(o, loc[p].caseId))
    /\ [][\A p \in Procs :
            /\ (Phase(loc[p].pc) = "lockCase" /\ loc'[p].pc \notin {loc[p].pc, "idle"}) =>
                  AcquiredOpen(p)' = (cases[loc[p].pay[1].caseId].status = CaseOpen)
            /\ (Phase(loc[p].pc) = "commit" /\ loc'[p].pc = "idle") =>
                  IF AcquiredOpen(p)
                    THEN /\ cases'[loc[p].caseId].status = CaseEngaged
                         /\ cases'[loc[p].caseId].acceptedQuote = loc[p].quoteId
                         /\ \A i \in QuoteIds :
                               quotes'[i].status = QuoteAccepted
                                  <=> i = loc[p].quoteId
                    ELSE cases' = cases /\ quotes' = quotes]_vars

\* the quote submitted second has won; the attempt on the first quote took the
\* lock later and only marked its payment PAID
C32_Witness ==
    /\ AllIdle
    /\ Len(quotes) = 2 /\ Len(payments) = 2
    /\ quotes[2].status = QuoteAccepted /\ quotes[1].status = QuoteRejected
    /\ cases[1].acceptedQuote = 2
    /\ payments[1].status = PayPaid /\ payments[2].status = PayPaid

\* the payment whose id the CreateCheckout step of slot p returns
ReturnedPayment(p) ==
    IF loc[p].pc = "CK_find"
      THEN Min({i \in PayIds : payments[i].quoteId = loc[p].quoteId})
    ELSE IF loc[p].pc = "CK_insert" THEN Len(payments) + 1
    ELSE loc[p].payId

\* C33 -- Whenever CreateCheckout returns a payment id for a quote, the amount
\* recorded on that payment equals the amount of the quote at that moment.
C33_CheckoutAmountCurrent ==
    [][\A p \in Procs :
         (Returns(p, "CreateCheckout") /\ last'.ret = "ok") =>
            payments'[ReturnedPayment(p)].amount = quotes'[loc[p].quoteId].amount]_vars

\* accepted_quote_id, accepted_lawyer_id and engaged_at of case c
AcceptedFields(c) ==
    <<cases[c].acceptedQuote, cases[c].acceptedLawyer, cases[c].engagedAt>>

\* C34 -- Whenever accepted_quote_id of a case is set it names a quote of that
\* case whose status is ACCEPTED, accepted_lawyer_id is the lawyer of that quote
\* and engaged_at is set; while it is not set the other two are not set either;
\* the three fields are written in one step and never change afterwards.
C34_AcceptedPointers ==
    /\ [](\A c \in Cases :
            IF cases[c].acceptedQuote # 0
              THEN /\ cases[c].acceptedQuote \in QuotesOfCase(c)
                   /\ quotes[cases[c].acceptedQuote].status = QuoteAccepted
                   /\ cases[c].acceptedLawyer = quotes[cases[c].acceptedQuote].lawyer
                   /\ cases[c].engagedAt
              ELSE AcceptedFields(c) = <<0, NoUser, FALSE>>)
    /\ [][\A c \in Cases :
            /\ cases[c].acceptedQuote # 0 => AcceptedFields(c)' = AcceptedFields(c)
            /\ AcceptedFields(c)' # AcceptedFields(c) =>
                  /\ cases[c].status = CaseOpen
                  /\ cases'[c].status = CaseEngaged
                  /\ \E p \in Procs : MockCompleteCommit(p) \/ StripeWebhookCommit(p)]_vars

\* quote 2 is the accepted quote; the later settlement of the payment of quote 1
\* and a Close have left the pointers alone
C34_Witness ==
    /\ AllIdle
    /\ Len(payments) = 2 /\ Len(quotes) = 2
    /\ AcceptedFields(1) = <<2, "L2", TRUE>>
    /\ quotes[2].status = QuoteAccepted
    /\ payments[1].status = PayPaid
    /\ cases[1].status = CaseClosed

\* the Upsert of slot p, past the status check under the case lock, returns
\* from its look-up of the quote with response r
UpsertLookupReturns(p, r) ==
    /\ loc[p].pc = "U_write"
    /\ loc'[p].pc = "idle"
    /\ last' = Responded("Upsert", r)

\* C35 -- Every quote of an OPEN case is PROPOSED, and so is the quote an Upsert
\* finds after it has locked the case and read it as OPEN: the 'quote is
\* immutable' Conflict is never returned.
C35_OpenCaseQuotesProposed ==
    /\ [](\A c \in Cases :
            cases[c].status = CaseOpen =>
               \A i \in QuotesOfCase(c) : quotes[i].status = QuoteProposed)
    /\ [](\A p \in Procs :
            loc[p].pc = "U_write" =>
               /\ cases[loc[p].caseId].status = CaseOpen
               /\ \A i \in FindQuote(loc[p].caseId, loc[p].caller) :
                     quotes[i].status = QuoteProposed)
    /\ [][\A p \in Procs : ~UpsertLookupReturns(p, ErrQuoteImmutable)]_vars

\* the lawyer of the REJECTED quote was refused by the case-not-open check
C35_Witness ==
    /\ last = Responded("Upsert", ErrCaseNotOpen)
    /\ AllIdle
    /\ Len(quotes) = 2
    /\ quotes[1].status = QuoteRejected
    /\ quotes[2].status = QuoteAccepted
    /\ cases[1].status = CaseEngaged

\* C38 -- The ownership re-check of Upsert never fails: the row it finds by
\* (case_id, lawyer_id) of the caller is a row of the caller, for every caller,
\* every payload and every reachable state, and Forbidden is never returned
\* from the look-up.
C38_OwnershipCheckNeverFails ==
    /\ [](\A c \in Cases : \A l \in Lawyers :
            \A i \in FindQuote(c, l) : quotes[i].lawyer = l /\ quotes[i].caseId = c)
    /\ [][\A p \in Procs :
            /\ ~UpsertLookupReturns(p, ErrForbidden)
            /\ (loc[p].pc = "U_write" /\ loc'[p].pc = "U_commit"
                  /\ loc'[p].quoteId # 0) =>
                  quotes[loc'[p].quoteId].lawyer = loc[p].caller]_vars

\* L2 has replaced its own quote while the quote of L1 is on the same case
C38_Witness ==
    /\ last = Responded("Upsert", "ok")
    /\ AllIdle
    /\ Len(quotes) = 2
    /\ quotes[2].lawyer = "L2" /\ quotes[2].amount = 1
    /\ quotes[1].lawyer = "L1" /\ quotes[1].amount = 1
    /\ lastUpsert[1]["L2"].amount = 1

\* C36 -- Once a case is CANCELLED no step makes a quote of it ACCEPTED or
\* REJECTED, adds a quote to it, sets the case ENGAGED or OPEN or writes its
\* accepted pointers, whatever settlement attempts come later; a Cancel that takes the case from OPEN finds every quote
\* of it PROPOSED, so the quotes of a case cancelled from OPEN are PROPOSED for
\* ever.
C36_CancelledIsFinal ==
    /\ [][\A c \in Cases :
            /\ cases[c].status = CaseCancelled =>
                  /\ cases'[c].status # CaseEngaged
                  /\ cases'[c].status # CaseOpen
                  /\ AcceptedFields(c)' = AcceptedFields(c)
                  /\ \A i \in QuoteIds : quotes'[i].status = quotes[i].status
                  /\ \A i \in DOMAIN quotes' \ QuoteIds : quotes'[i].caseId # c
            /\ (cases[c].status = CaseOpen /\ cases'[c].status = CaseCancelled) =>
                  /\ \A i \in QuotesOfCase(c) : quotes'[i].status = QuoteProposed
                  /\ \A p \in Procs : ~HoldsCaseLock(p, c)]_vars
    /\ [](\A c \in Cases :
            (cases[c].status = CaseCancelled /\ cases[c].acceptedQuote = 0) =>
               \A i \in QuotesOfCase(c) : quotes[i].status = QuoteProposed)

\* the case was cancelled from OPEN and a settlement attempt that came later has
\* marked its payment PAID and left both quotes PROPOSED
C36_Witness ==
    /\ AllIdle
    /\ cases[1].status = CaseCancelled
    /\ cases[1].acceptedQuote = 0
    /\ Len(payments) = 2 /\ Len(quotes) = 2
    /\ payments[1].status = PayPaid
    /\ quotes[1].status = QuoteProposed /\ quotes[2].status = QuoteProposed
    /\ last.op \in {"MockComplete", "StripeWebhook"}
    /\ last.ret \in Success

\* the audit entries of case c, in the order they were written
EntriesOf(c) == SelectSeq(hist, LAMBDA h : h.caseId = c)

\* C37 -- When no request is in progress, the audit entries of a case form a
\* chain: each entry's old_status is the new_status of the entry before it, and
\* the new_status of the last entry is the status of the case.
C37_AuditChain ==
    AllIdle =>
       \A c \in Cases :
          LET es == EntriesOf(c)
          IN  /\ \A i \in 2..Len(es) : es[i].old = es[i - 1].new
              /\ es # <<>> => es[Len(es)].new = cases[c].status

=============================================================================
